---- MODULE Spec2Model ----
(***************************************************************************)
(* Model of the file-backed document store of main.go: the Driver with its *)
(* lock registry, and Write / Read / ReadAll / Delete acting step by step  *)
(* on a filesystem shared by concurrent callers.                           *)
(*                                                                         *)
(* A path or a name is a sequence of string tokens: "users.json" is        *)
(* <<"u", "json">>, the separator is the token "/".  Appending ".json" or  *)
(* ".tmp" to a string is Append of the token "json" or "tmp".              *)
(***************************************************************************)
EXTENDS Naturals, Sequences, FiniteSets, TLC

(* ------------------------------ bounds -------------------------------- *)
\* Calls started in one behaviour of a single caller.
MaxOps == 2
\* Calls started in one behaviour of concurrent callers.
MaxConcOps == 2
\* Injected I/O failures (disk full, permission) in one behaviour.
MaxFaults == 1

Procs == {1, 2}

(* ------------------------------ names --------------------------------- *)
Empty == <<>>
Collections == {Empty, <<"u">>, <<"u", "json">>}
Resources == {Empty, <<"a">>, <<"a", "json">>}

\* User (main.go:202) reduced to a Name and the json.Number field Age.
Ages == {"23", "", "x"}
Values == [Name : {"John"}, Age : Ages]
NoValue == [Name |-> "", Age |-> "none"]

(* --------------------------- encoding/json ---------------------------- *)
\* The number literals json.Marshal accepts for a json.Number.
ValidNumbers == {"0", "23"}

\* A json.Number is written as its literal; the zero value "" is written 0.
NumLit(n) == IF n = "" THEN "0" ELSE n

\* json.MarshalIndent(v, "", "\t"): the document as a sequence of tokens, or
\* an error for a json.Number that is no number literal.
MarshalErr(v) == NumLit(v.Age) \notin ValidNumbers
MarshalIndent(v) == <<"{", v.Name, NumLit(v.Age), "}">>

\* The bytes Write stores: the document and a trailing newline.
Encode(v) == Append(MarshalIndent(v), "\n")

\* json.Unmarshal into a User: a complete document, with or without trailing
\* white space, decodes; anything shorter is an unexpected end of input.
UnmarshalErr(b) ==
    ~(/\ Len(b) \in {4, 5}
      /\ b[1] = "{"
      /\ b[4] = "}"
      /\ Len(b) = 5 => b[5] = "\n")
Unmarshal(b) == [Name |-> b[2], Age |-> b[3]]

(* ------------------------------ paths --------------------------------- *)
Sep == "/"

\* filepath.Join of two elements: empty elements are ignored.
Join(a, b) ==
    IF a = Empty THEN b
    ELSE IF b = Empty THEN a
    ELSE a \o <<Sep>> \o b

\* Driver.dir, the cleaned root directory.
Root == <<"db">>

IsPrefix(p, q) == Len(p) <= Len(q) /\ SubSeq(q, 1, Len(p)) = p

\* q is p or lies below directory p.
Under(p, q) == q = p \/ IsPrefix(p \o <<Sep>>, q)

\* p and every directory above it, up to the first component.
Ancestors(p) ==
    {SubSeq(p, 1, i - 1) : i \in {j \in 1..Len(p) : p[j] = Sep}} \cup {p}

HasSep(p) == \E i \in 1..Len(p) : p[i] = Sep

\* The directory holding p (p has at least two components).
Parent(p) ==
    LET seps == {j \in 1..Len(p) : p[j] = Sep}
        last == CHOOSE j \in seps : \A k \in seps : k <= j
    IN SubSeq(p, 1, last - 1)

\* The last component of p.
Base(p) ==
    LET seps == {j \in 1..Len(p) : p[j] = Sep}
        last == CHOOSE j \in seps : \A k \in seps : k <= j
    IN SubSeq(p, last + 1, Len(p))

(* ---------------------------- filesystem ------------------------------ *)
DirEntry == [dir |-> TRUE, data |-> <<>>]
FileEntry(b) == [dir |-> FALSE, data |-> b]

Exists(f, p) == p \in DOMAIN f
IsDir(f, p) == Exists(f, p) /\ f[p].dir
IsRegular(f, p) == Exists(f, p) /\ ~f[p].dir

\* A path can be created when it is the root or its directory exists.
ParentOk(f, p) == ~HasSep(p) \/ IsDir(f, Parent(p))

Restrict(f, S) == [x \in S |-> f[x]]
Put(f, p, e) == [x \in DOMAIN f \cup {p} |-> IF x = p THEN e ELSE f[x]]

\* os.MkdirAll: fails when p or a directory above it is a regular file.
MkdirAllErr(f, p) == \E a \in Ancestors(p) : IsRegular(f, a)
MkdirAll(f, p) ==
    IF MkdirAllErr(f, p) THEN f
    ELSE [x \in DOMAIN f \cup Ancestors(p) |->
            IF x \in DOMAIN f THEN f[x] ELSE DirEntry]

\* os.RemoveAll: removes p and everything below it; no error when absent.
RemoveAll(f, p) == Restrict(f, {x \in DOMAIN f : ~Under(p, x)})

\* os.Rename of a regular file onto a path that is absent or a regular file.
RenameErr(f, from, to) ==
    \/ ~Exists(f, from)
    \/ ~ParentOk(f, to)
    \/ IsDir(f, to)
\* Mutant: a file already at the destination is kept.
Rename_KeepOld(f, from, to) ==
    IF from = to THEN f
    ELSE IF to \in DOMAIN f THEN Restrict(f, DOMAIN f \ {from})
    ELSE Put(Restrict(f, DOMAIN f \ {from}), to, f[from])
Rename(f, from, to) ==
    IF from = to THEN f
    ELSE Put(Restrict(f, DOMAIN f \ {from}), to, f[from])

\* The entries of directory p, as ioutil.ReadDir lists them.
Entries(f, p) == {x \in DOMAIN f : x # p /\ Under(p, x) /\ Parent(x) = p}


\* The probe of one path, os.Stat: not-exist, or the kind of what is there.
Stat(f, p) == [err |-> ~Exists(f, p), isDir |-> IsDir(f, p)]

\* stat (main.go:188): the path as given, else the path with ".json" added.
stat(f, p) ==
    IF Stat(f, p).err THEN Stat(f, Append(p, "json")) ELSE Stat(f, p)

(* ------------------------- listing order ------------------------------ *)
\* ioutil.ReadDir sorts by file name; the tokens of a name in byte order.
TokRank(t) ==
    CASE t = "a" -> 1
      [] t = "json" -> 2
      [] t = "tmp" -> 3
      [] OTHER -> 4

RECURSIVE NameLess(_, _)
NameLess(x, y) ==
    IF x = <<>> THEN y # <<>>
    ELSE IF y = <<>> THEN FALSE
    ELSE IF Head(x) # Head(y) THEN TokRank(Head(x)) < TokRank(Head(y))
    ELSE NameLess(Tail(x), Tail(y))

RECURSIVE SortedPaths(_)
SortedPaths(S) ==
    IF S = {} THEN <<>>
    ELSE LET m == CHOOSE x \in S : \A y \in S \ {x} : NameLess(Base(x), Base(y))
         IN <<m>> \o SortedPaths(S \ {m})

\* Mutant: the listing loses its first entry.
ReadDir_SkipFirst(f, p) ==
    IF IsDir(f, p) /\ Entries(f, p) # {}
    THEN Tail(SortedPaths(Entries(f, p))) ELSE <<>>

\* ioutil.ReadDir with its error dropped (main.go:137): no entries on error.
ReadDir(f, p) == IF IsDir(f, p) THEN SortedPaths(Entries(f, p)) ELSE <<>>

(* --------------------------- path layout ------------------------------ *)
\* Write's dir (main.go:80) and ReadAll's dir (main.go:131).
CollDir(c) == Join(Root, c)
\* Write's fnlPath (main.go:81).
FnlPath(c, r) == Join(CollDir(c), Append(r, "json"))
\* Mutant: the temporary file is the resource file itself.
TmpPath_InPlace(fnl) == fnl
\* Write's tmpPath (main.go:82).
TmpPath(fnl) == Append(fnl, "tmp")
\* Mutant: Read adds the extension a second time.
Record_DoubleExt(c, r) == Join(Root, Join(c, Append(Append(r, "json"), "json")))
\* Read's record (main.go:111).
Record(c, r) == Join(Root, Join(c, Append(r, "json")))
\* Delete's dir (main.go:154, 159).
DeletePath(c, r) == Join(Root, Join(c, r))


(* ------------------------------ state --------------------------------- *)
VARIABLES
    fs,        \* the filesystem: path -> entry
    mutex,     \* Driver.mutex is held
    mutexes,   \* Driver.mutexes: collection -> lock object
    locks,     \* the lock objects created so far: object -> "it is held"
    pc,        \* where each caller is in its call
    op,        \* the call of each caller: kind, collection, resource, value
    loc,       \* the locals of each call
    res,       \* what the last call of each caller returned
    callers,   \* the callers there are
    colls,     \* the collections they name
    nops,      \* calls started
    faults,    \* I/O failures injected
    written,   \* history: <<c, r>> -> the value of the last committed Write
    lastHeld,  \* history: <<c, r>> -> the last Write to take the lock
    quiet,     \* history: collection -> its last call, while nothing else ran
    exp,       \* history: what a reader's call started after
    visible    \* history: the versions a Read may observe

vars == <<fs, mutex, mutexes, locks, pc, op, loc, res, callers, colls, nops,
          faults, written, lastHeld, quiet, exp, visible>>

NoOp == [kind |-> "none", c |-> Empty, r |-> Empty, v |-> NoValue]
\* A lock object is named by the collection it was made for and by how many
\* were made for that collection before it; NoLock is the nil pointer.
NoLock == <<Empty, 0>>
\* Mutant: one lock object serves every collection.
NewLock_Shared(c) == <<Empty, 1>>
NewLock(c) == <<c, Cardinality({l \in DOMAIN locks : l[1] = c}) + 1>>

NoLoc == [m |-> NoLock, found |-> FALSE, b |-> <<>>, isDir |-> FALSE, todo |-> <<>>,
          recs |-> <<>>]
NoRes == [err |-> "none", val |-> NoValue, recs |-> <<>>, removed |-> FALSE]
NoneQ == [k |-> "none", r |-> Empty, v |-> NoValue]
NoVis == [on |-> FALSE, vs |-> {}]

Result(e) == [NoRes EXCEPT !.err = e]

InFlight(p) == pc[p] \notin {"idle", "done"}
Mutating(p) == InFlight(p) /\ op[p].kind \in {"Write", "Delete"}
Reading(p) == InFlight(p) /\ op[p].kind \in {"Read", "ReadAll"}

\* A call naming collection d can change what is stored in collection c.
Touches(d, c) == d = c \/ d = Empty

\* What earlier runs may have left under the root, which New reuses
\* (main.go:58-61): resource -> value written.
InitStores ==
    { <<>>,
      (<<<<"u">>, <<"a">>>> :> [Name |-> "John", Age |-> "23"]),
      (<<<<"u">>, <<"a">>>> :> [Name |-> "John", Age |-> "23"])
         @@ (<<<<"u">>, <<"a", "json">>>> :> [Name |-> "John", Age |-> ""]),
      (<<<<"u">>, <<"a">>>> :> [Name |-> "John", Age |-> "23"])
         @@ (<<<<"u", "json">>, <<"a">>>> :> [Name |-> "John", Age |-> "23"]) }

\* The filesystem holding exactly the resources of w.
FsOf(w) ==
    LET dirs == {Root} \cup {CollDir(k[1]) : k \in DOMAIN w}
        files == {FnlPath(k[1], k[2]) : k \in DOMAIN w}
    IN [x \in dirs \cup files |->
          IF x \in dirs THEN DirEntry
          ELSE LET k == CHOOSE k \in DOMAIN w : FnlPath(k[1], k[2]) = x
               IN FileEntry(Encode(w[k]))]

InitWith(cs, cl) ==
    /\ callers = cs
    /\ colls = cl
    /\ written \in {w \in InitStores : \A k \in DOMAIN w : k[1] \in cl}
    /\ fs = FsOf(written)
    /\ mutex = FALSE
    /\ mutexes = <<>>
    /\ locks = <<>>
    /\ pc = [p \in Procs |-> "idle"]
    /\ op = [p \in Procs |-> NoOp]
    /\ loc = [p \in Procs |-> NoLoc]
    /\ res = [p \in Procs |-> NoRes]
    /\ nops = 0
    /\ faults = 0
    /\ lastHeld = <<>>
    /\ quiet = [c \in Collections |-> NoneQ]
    /\ exp = [p \in Procs |-> NoneQ]
    /\ visible = [p \in Procs |-> NoVis]

\* Concurrent callers.
Init == InitWith(Procs, Collections)
\* A single caller.
InitSeq == InitWith({1}, Collections)
\* Concurrent callers that all name one collection.
InitColl == InitWith(Procs, {<<"u">>})
\* Concurrent callers that name two collections.
InitTwo == InitWith(Procs, {<<"u">>, <<"u", "json">>})

(* ------------------------- history bookkeeping ------------------------ *)
\* A mutating call on collection d starts: nothing is known of the
\* collections it touches, nor by the readers running on them.
BeginMutation(p, d) ==
    /\ quiet' = [c \in Collections |->
                    IF Touches(d, c) THEN NoneQ ELSE quiet[c]]
    /\ exp' = [q \in Procs |->
                    IF q = p \/ (Reading(q) /\ Touches(d, op[q].c))
                    THEN NoneQ ELSE exp[q]]

\* A mutating call of p ends with outcome o for its own collection.
EndMutation(p, o) ==
    quiet' = [c \in Collections |->
                IF ~Touches(op[p].c, c) THEN quiet[c]
                ELSE IF c = op[p].c
                        /\ \A q \in Procs \ {p} :
                              ~(Mutating(q) /\ Touches(op[q].c, c))
                     THEN o
                     ELSE NoneQ]

\* The Writes to resource (c, r) that hold the collection's lock.
Holders(c, r) ==
    {q \in Procs : /\ op[q].kind = "Write" /\ op[q].c = c /\ op[q].r = r
                   /\ pc[q] \in {"w_mkdir", "w_open", "w_write", "w_rename"}}

\* A Read(c, r) of p starts. With the resource stored and no Delete running
\* on its collection, it may observe the value of the latest completed Write
\* or that of a Write holding the lock.
BeginRead(p, c, r) ==
    visible' = [visible EXCEPT ![p] =
        IF /\ <<c, r>> \in DOMAIN written
           /\ \A q \in Procs :
                 ~(Mutating(q) /\ op[q].kind = "Delete" /\ Touches(op[q].c, c))
        THEN [on |-> TRUE,
              vs |-> {written[<<c, r>>]} \cup {op[q].v : q \in Holders(c, r)}]
        ELSE NoVis]

\* The call of p takes its collection's lock: when it is a Write, the Reads
\* of its resource that are running may observe its value.
NoteLock(p) ==
    visible' = [q \in Procs |->
        IF /\ op[p].kind = "Write" /\ visible[q].on /\ InFlight(q)
           /\ op[q].kind = "Read" /\ op[q].c = op[p].c /\ op[q].r = op[p].r
        THEN [visible[q] EXCEPT !.vs = @ \cup {op[p].v}]
        ELSE visible[q]]

\* A Delete of p on collection d starts: nothing is promised to the Reads
\* running on the collections it touches.
NoteDelete(p, d) ==
    visible' = [q \in Procs |->
        IF q = p \/ (Reading(q) /\ Touches(d, op[q].c))
        THEN NoVis ELSE visible[q]]

\* The call of p returns: its locals go, its lock (if any) is released.
Return(p, r) ==
    /\ pc' = [pc EXCEPT ![p] = "done"]
    /\ res' = [res EXCEPT ![p] = r]
    /\ loc' = [loc EXCEPT ![p] = NoLoc]

\* The deferred mutex.Unlock of Write and Delete (main.go:78, 157).
Unlock(p) == locks' = [locks EXCEPT ![loc[p].m] = FALSE]


(* ------------------------------ calls --------------------------------- *)
\* Mutant: the check of the resource is missing.
WriteArgsErr_NoResource(c, r) == c = Empty
\* Write's argument checks (main.go:68-74).
WriteArgsErr(c, r) == c = Empty \/ r = Empty
\* Read's argument checks (main.go:103-109).
ReadArgsErr(c, r) == c = Empty \/ r = Empty
\* ReadAll's argument check (main.go:128-130).
ReadAllArgsErr(c) == c = Empty

\* A call is made by the first caller that is not in one.
Start(p, o) ==
    /\ p \in callers
    /\ pc[p] \in {"idle", "done"}
    /\ \A q \in callers : q < p => InFlight(q)
    /\ nops < (IF callers = {1} THEN MaxOps ELSE MaxConcOps)
    /\ nops' = nops + 1
    /\ op' = [op EXCEPT ![p] = o]
    /\ loc' = [loc EXCEPT ![p] = NoLoc]

CallWrite(p) ==
    \E c \in colls, r \in Resources, v \in Values :
        /\ Start(p, [kind |-> "Write", c |-> c, r |-> r, v |-> v])
        /\ IF WriteArgsErr(c, r)
           THEN /\ pc' = [pc EXCEPT ![p] = "done"]
                /\ res' = [res EXCEPT ![p] = Result("InvalidArgument")]
                /\ exp' = [exp EXCEPT ![p] = NoneQ]
                /\ UNCHANGED quiet
           ELSE /\ pc' = [pc EXCEPT ![p] = "reg_lock"]
                /\ res' = [res EXCEPT ![p] = NoRes]
                /\ BeginMutation(p, c)
        /\ UNCHANGED <<fs, mutex, mutexes, locks, callers, colls, faults, written, lastHeld>>
        /\ visible' = [visible EXCEPT ![p] = NoVis]

CallRead(p) ==
    \E c \in colls, r \in Resources :
        /\ Start(p, [kind |-> "Read", c |-> c, r |-> r, v |-> NoValue])
        /\ IF ReadArgsErr(c, r)
           THEN /\ pc' = [pc EXCEPT ![p] = "done"]
                /\ res' = [res EXCEPT ![p] = Result("InvalidArgument")]
                /\ exp' = [exp EXCEPT ![p] = NoneQ]
           ELSE /\ pc' = [pc EXCEPT ![p] = "r_stat"]
                /\ res' = [res EXCEPT ![p] = NoRes]
                /\ exp' = [exp EXCEPT ![p] =
                              IF quiet[c].k = "D"
                                 \/ (quiet[c].k \in {"W", "R"} /\ quiet[c].r = r)
                              THEN quiet[c] ELSE NoneQ]
        /\ UNCHANGED <<fs, mutex, mutexes, locks, callers, colls, faults, written, lastHeld,
                       quiet>>
        /\ IF ReadArgsErr(c, r)
           THEN visible' = [visible EXCEPT ![p] = NoVis]
           ELSE BeginRead(p, c, r)

CallReadAll(p) ==
    \E c \in colls :
        /\ Start(p, [kind |-> "ReadAll", c |-> c, r |-> Empty, v |-> NoValue])
        /\ IF ReadAllArgsErr(c)
           THEN /\ pc' = [pc EXCEPT ![p] = "done"]
                /\ res' = [res EXCEPT ![p] = Result("InvalidArgument")]
                /\ exp' = [exp EXCEPT ![p] = NoneQ]
           ELSE /\ pc' = [pc EXCEPT ![p] = "ra_stat"]
                /\ res' = [res EXCEPT ![p] = NoRes]
                /\ exp' = [exp EXCEPT ![p] =
                              IF quiet[c].k = "D" THEN quiet[c] ELSE NoneQ]
        /\ UNCHANGED <<fs, mutex, mutexes, locks, callers, colls, faults, written, lastHeld,
                       quiet>>
        /\ visible' = [visible EXCEPT ![p] = NoVis]

CallDelete(p) ==
    \E c \in colls, r \in Resources :
        /\ Start(p, [kind |-> "Delete", c |-> c, r |-> r, v |-> NoValue])
        /\ pc' = [pc EXCEPT ![p] = "reg_lock"]
        /\ res' = [res EXCEPT ![p] = NoRes]
        /\ BeginMutation(p, c)
        /\ UNCHANGED <<fs, mutex, mutexes, locks, callers, colls, faults, written, lastHeld>>
        /\ NoteDelete(p, c)

(* ------------------------- getOrCreateMutex --------------------------- *)
\* Mutant: the lookup runs without waiting for the registry lock.
RegLock_NoWait(p) ==
    /\ pc[p] = "reg_lock"
    /\ mutex' = TRUE
    /\ loc' = [loc EXCEPT ![p].found = op[p].c \in DOMAIN mutexes,
                          ![p].m = IF op[p].c \in DOMAIN mutexes
                                   THEN mutexes[op[p].c] ELSE NoLock]
    /\ pc' = [pc EXCEPT ![p] = "reg_store"]
    /\ UNCHANGED <<fs, mutexes, locks, op, res, callers, colls, nops, faults, written,
                   lastHeld, quiet, exp>>
    /\ UNCHANGED visible

\* d.mutex.Lock() and the map lookup (main.go:176-178).
RegLock(p) ==
    /\ pc[p] = "reg_lock"
    /\ ~mutex
    /\ mutex' = TRUE
    /\ loc' = [loc EXCEPT ![p].found = op[p].c \in DOMAIN mutexes,
                          ![p].m = IF op[p].c \in DOMAIN mutexes
                                   THEN mutexes[op[p].c] ELSE NoLock]
    /\ pc' = [pc EXCEPT ![p] = "reg_store"]
    /\ UNCHANGED <<fs, mutexes, locks, op, res, callers, colls, nops, faults, written,
                   lastHeld, quiet, exp>>
    /\ UNCHANGED visible

\* Mutant: a lock object is made on every call, found or not.
RegStore_AlwaysNew(p) ==
    /\ pc[p] = "reg_store"
    /\ locks' = Put(locks, NewLock(op[p].c), FALSE)
    /\ mutexes' = Put(mutexes, op[p].c, NewLock(op[p].c))
    /\ loc' = [loc EXCEPT ![p].m = NewLock(op[p].c)]
    /\ mutex' = FALSE
    /\ pc' = [pc EXCEPT ![p] = "lock"]
    /\ UNCHANGED <<fs, op, res, callers, colls, nops, faults, written, lastHeld,
                   quiet, exp>>
    /\ UNCHANGED visible

\* The creation of a missing lock and the deferred d.mutex.Unlock()
\* (main.go:177, 180-185).
RegStore(p) ==
    /\ pc[p] = "reg_store"
    /\ IF loc[p].found
       THEN UNCHANGED <<mutexes, locks, loc>>
       ELSE /\ locks' = Put(locks, NewLock(op[p].c), FALSE)
            /\ mutexes' = Put(mutexes, op[p].c, NewLock(op[p].c))
            /\ loc' = [loc EXCEPT ![p].m = NewLock(op[p].c)]
    /\ mutex' = FALSE
    /\ pc' = [pc EXCEPT ![p] = "lock"]
    /\ UNCHANGED <<fs, op, res, callers, colls, nops, faults, written, lastHeld, quiet, exp>>
    /\ UNCHANGED visible

\* Mutant: the lock is taken without waiting for it to be free.
Lock_NoWait(p) ==
    /\ pc[p] = "lock"
    /\ locks' = [locks EXCEPT ![loc[p].m] = TRUE]
    /\ pc' = [pc EXCEPT ![p] = IF op[p].kind = "Write" THEN "w_mkdir" ELSE "d_stat"]
    /\ lastHeld' = IF op[p].kind = "Write"
                   THEN Put(lastHeld, <<op[p].c, op[p].r>>,
                            [v |-> op[p].v, st |-> "run"])
                   ELSE lastHeld
    /\ UNCHANGED <<fs, mutex, mutexes, op, loc, res, callers, colls, nops, faults,
                   written, quiet, exp>>
    /\ NoteLock(p)

\* mutex.Lock() on the collection's lock (main.go:77, 156): waits while held.
Lock(p) ==
    /\ pc[p] = "lock"
    /\ ~locks[loc[p].m]
    /\ locks' = [locks EXCEPT ![loc[p].m] = TRUE]
    /\ pc' = [pc EXCEPT ![p] = IF op[p].kind = "Write" THEN "w_mkdir" ELSE "d_stat"]
    /\ lastHeld' = IF op[p].kind = "Write"
                   THEN Put(lastHeld, <<op[p].c, op[p].r>>,
                            [v |-> op[p].v, st |-> "run"])
                   ELSE lastHeld
    /\ UNCHANGED <<fs, mutex, mutexes, op, loc, res, callers, colls, nops, faults, written,
                   quiet, exp>>
    /\ NoteLock(p)


(* ------------------------------ Write --------------------------------- *)
Key(p) == <<op[p].c, op[p].r>>

\* Mutant: an error return leaves without releasing the lock.
WriteReturn_LeakOnError(p, e) ==
    /\ Return(p, Result(e))
    /\ IF e = "nil" THEN Unlock(p) ELSE UNCHANGED locks
    /\ EndMutation(p, IF e = "nil"
                      THEN [k |-> "W", r |-> op[p].r, v |-> op[p].v]
                      ELSE NoneQ)
    /\ lastHeld' = IF Key(p) \in DOMAIN lastHeld
                   THEN [lastHeld EXCEPT ![Key(p)].st =
                            IF e = "nil" THEN "ok" ELSE "err"]
                   ELSE lastHeld

\* Write returns e: the lock is released and the history notes the outcome.
WriteReturn(p, e) ==
    /\ Return(p, Result(e))
    /\ Unlock(p)
    /\ EndMutation(p, IF e = "nil"
                      THEN [k |-> "W", r |-> op[p].r, v |-> op[p].v]
                      ELSE NoneQ)
    /\ lastHeld' = IF Key(p) \in DOMAIN lastHeld
                   THEN [lastHeld EXCEPT ![Key(p)].st =
                            IF e = "nil" THEN "ok" ELSE "err"]
                   ELSE lastHeld

\* os.MkdirAll(dir), then json.MarshalIndent(v) (main.go:84-93).
WriteMkdir(p) ==
    /\ pc[p] = "w_mkdir"
    /\ IF MkdirAllErr(fs, CollDir(op[p].c))
       THEN /\ WriteReturn(p, "IOFailure")
            /\ UNCHANGED fs
       ELSE /\ fs' = MkdirAll(fs, CollDir(op[p].c))
            /\ IF MarshalErr(op[p].v)
               THEN WriteReturn(p, "EncodingFailure")
               ELSE /\ loc' = [loc EXCEPT ![p].b = Encode(op[p].v)]
                    /\ pc' = [pc EXCEPT ![p] = "w_open"]
                    /\ UNCHANGED <<locks, res, lastHeld, quiet>>
    /\ UNCHANGED <<mutex, mutexes, op, callers, colls, nops, faults, written, exp>>
    /\ UNCHANGED visible

\* ioutil.WriteFile(tmpPath), its open with O_CREATE|O_TRUNC (main.go:95).
WriteOpen(p) ==
    LET tmp == TmpPath(FnlPath(op[p].c, op[p].r)) IN
    /\ pc[p] = "w_open"
    /\ IF ~ParentOk(fs, tmp) \/ IsDir(fs, tmp)
       THEN /\ WriteReturn(p, "IOFailure")
            /\ UNCHANGED fs
       ELSE /\ fs' = Put(fs, tmp, FileEntry(<<>>))
            /\ pc' = [pc EXCEPT ![p] = "w_write"]
            /\ UNCHANGED <<locks, loc, res, lastHeld, quiet>>
    /\ UNCHANGED <<mutex, mutexes, op, callers, colls, nops, faults, written, exp>>
    /\ UNCHANGED visible

\* ioutil.WriteFile(tmpPath), its write of the bytes (main.go:95): all of
\* them, or, when the write fails, only the first k.
WriteData(p) ==
    LET tmp == TmpPath(FnlPath(op[p].c, op[p].r)) IN
    /\ pc[p] = "w_write"
    /\ \/ /\ fs' = IF IsRegular(fs, tmp)
                   THEN Put(fs, tmp, FileEntry(loc[p].b)) ELSE fs
          /\ pc' = [pc EXCEPT ![p] = "w_rename"]
          /\ UNCHANGED <<locks, loc, res, lastHeld, quiet, faults>>
       \/ /\ faults < MaxFaults
          /\ faults' = faults + 1
          /\ \E k \in {0, Len(loc[p].b) \div 2} :
                fs' = IF IsRegular(fs, tmp)
                      THEN Put(fs, tmp, FileEntry(SubSeq(loc[p].b, 1, k)))
                      ELSE fs
          /\ WriteReturn(p, "IOFailure")
    /\ UNCHANGED <<mutex, mutexes, op, callers, colls, nops, written, exp>>
    /\ UNCHANGED visible

\* Mutant: a replace step that fails has already removed the destination.
WriteRename_Clobber(p) ==
    LET fnl == FnlPath(op[p].c, op[p].r)
        tmp == TmpPath(fnl)
    IN
    /\ pc[p] = "w_rename"
    /\ \/ /\ IF RenameErr(fs, tmp, fnl)
             THEN /\ WriteReturn(p, "IOFailure")
                  /\ UNCHANGED <<fs, written>>
             ELSE /\ fs' = Rename(fs, tmp, fnl)
                  /\ written' = Put(written, Key(p), op[p].v)
                  /\ WriteReturn(p, "nil")
          /\ UNCHANGED faults
       \/ /\ faults < MaxFaults
          /\ faults' = faults + 1
          /\ WriteReturn(p, "IOFailure")
          /\ fs' = RemoveAll(fs, fnl)
          /\ UNCHANGED written
    /\ UNCHANGED <<mutex, mutexes, op, callers, colls, nops, exp>>
    /\ UNCHANGED visible

\* os.Rename(tmpPath, fnlPath) and the return (main.go:99).
WriteRename(p) ==
    LET fnl == FnlPath(op[p].c, op[p].r)
        tmp == TmpPath(fnl)
    IN
    /\ pc[p] = "w_rename"
    /\ \/ /\ IF RenameErr(fs, tmp, fnl)
             THEN /\ WriteReturn(p, "IOFailure")
                  /\ UNCHANGED <<fs, written>>
             ELSE /\ fs' = Rename(fs, tmp, fnl)
                  /\ written' = Put(written, Key(p), op[p].v)
                  /\ WriteReturn(p, "nil")
          /\ UNCHANGED faults
       \/ /\ faults < MaxFaults
          /\ faults' = faults + 1
          /\ WriteReturn(p, "IOFailure")
          /\ UNCHANGED <<fs, written>>
    /\ UNCHANGED <<mutex, mutexes, op, callers, colls, nops, exp>>
    /\ UNCHANGED visible

(* ------------------------------- Read --------------------------------- *)
\* stat(record) (main.go:113-115).
ReadStat(p) ==
    /\ pc[p] = "r_stat"
    /\ IF stat(fs, Record(op[p].c, op[p].r)).err
       THEN Return(p, Result("NotFound"))
       ELSE /\ pc' = [pc EXCEPT ![p] = "r_read"]
            /\ UNCHANGED <<res, loc>>
    /\ UNCHANGED <<fs, mutex, mutexes, locks, op, callers, colls, nops, faults, written,
                   lastHeld, quiet, exp>>
    /\ UNCHANGED visible

\* Mutant: Read follows the probe and reads the path with ".json" added
\* when the record itself is absent.
ReadResult_Fallback(f, record) ==
    LET q == IF Exists(f, record) THEN record ELSE Append(record, "json") IN
    IF ~Exists(f, q) THEN Result("NotFound")
    ELSE IF IsDir(f, q) THEN Result("IOFailure")
    ELSE IF UnmarshalErr(f[q].data) THEN Result("EncodingFailure")
    ELSE [Result("nil") EXCEPT !.val = Unmarshal(f[q].data)]

\* What ioutil.ReadFile(record) and json.Unmarshal give (main.go:117-122).
ReadResult(f, record) ==
    IF ~Exists(f, record) THEN Result("NotFound")
    ELSE IF IsDir(f, record) THEN Result("IOFailure")
    ELSE IF UnmarshalErr(f[record].data) THEN Result("EncodingFailure")
    ELSE [Result("nil") EXCEPT !.val = Unmarshal(f[record].data)]

ReadFile(p) ==
    /\ pc[p] = "r_read"
    /\ Return(p, ReadResult(fs, Record(op[p].c, op[p].r)))
    /\ UNCHANGED <<fs, mutex, mutexes, locks, op, callers, colls, nops, faults, written,
                   lastHeld, quiet, exp>>
    /\ UNCHANGED visible


(* ------------------------------ ReadAll ------------------------------- *)
\* stat(dir) (main.go:133-135).
ReadAllStat(p) ==
    /\ pc[p] = "ra_stat"
    /\ IF stat(fs, CollDir(op[p].c)).err
       THEN Return(p, Result("NotFound"))
       ELSE /\ pc' = [pc EXCEPT ![p] = "ra_list"]
            /\ UNCHANGED <<res, loc>>
    /\ UNCHANGED <<fs, mutex, mutexes, locks, op, callers, colls, nops, faults, written,
                   lastHeld, quiet, exp>>
    /\ UNCHANGED visible

\* files, _ := ioutil.ReadDir(dir) (main.go:137); with no entry the loop is
\* skipped and the empty result returned (main.go:149).
ReadAllList(p) ==
    LET files == ReadDir(fs, CollDir(op[p].c)) IN
    /\ pc[p] = "ra_list"
    /\ IF files = <<>>
       THEN Return(p, Result("nil"))
       ELSE /\ loc' = [loc EXCEPT ![p].todo = files]
            /\ pc' = [pc EXCEPT ![p] = "ra_file"]
            /\ UNCHANGED res
    /\ UNCHANGED <<fs, mutex, mutexes, locks, op, callers, colls, nops, faults, written,
                   lastHeld, quiet, exp>>
    /\ UNCHANGED visible

\* One turn of the loop: ioutil.ReadFile of the next entry (main.go:141-148),
\* and the return after the last one (main.go:149).
ReadAllFile(p) ==
    LET file == Head(loc[p].todo)
        recs == Append(loc[p].recs, fs[file].data)
    IN
    /\ pc[p] = "ra_file"
    /\ IF ~Exists(fs, file) THEN Return(p, Result("NotFound"))
       ELSE IF IsDir(fs, file) THEN Return(p, Result("IOFailure"))
       ELSE IF Len(loc[p].todo) = 1
            THEN Return(p, [Result("nil") EXCEPT !.recs = recs])
       ELSE /\ loc' = [loc EXCEPT ![p].todo = Tail(loc[p].todo),
                                  ![p].recs = recs]
            /\ UNCHANGED <<pc, res>>
    /\ UNCHANGED <<fs, mutex, mutexes, locks, op, callers, colls, nops, faults, written,
                   lastHeld, quiet, exp>>
    /\ UNCHANGED visible

(* ------------------------------ Delete -------------------------------- *)
\* Delete returns e; removed tells whether its target was there to remove.
DeleteReturn(p, e, removed) ==
    /\ Return(p, [Result(e) EXCEPT !.removed = removed])
    /\ Unlock(p)
    /\ EndMutation(p, IF e = "nil" /\ removed /\ op[p].c # Empty
                      THEN [k |-> IF op[p].r = Empty THEN "D" ELSE "R",
                            r |-> op[p].r, v |-> NoValue]
                      ELSE NoneQ)

\* stat(dir) and the first case of the switch (main.go:161-163).
DeleteStat(p) ==
    LET s == stat(fs, DeletePath(op[p].c, op[p].r)) IN
    /\ pc[p] = "d_stat"
    /\ IF s.err
       THEN DeleteReturn(p, "NotFound", FALSE)
       ELSE /\ loc' = [loc EXCEPT ![p].isDir = s.isDir]
            /\ pc' = [pc EXCEPT ![p] = "d_remove"]
            /\ UNCHANGED <<locks, res, quiet>>
    /\ UNCHANGED <<fs, mutex, mutexes, op, callers, colls, nops, faults, written, lastHeld,
                   exp>>
    /\ UNCHANGED visible

\* Mutant: what the probe was given is removed, file or directory.
DeleteTarget_AsProbed(c, r, isDir) == DeletePath(c, r)
\* What the switch removes: the directory, or the ".json" file
\* (main.go:165-169).
DeleteTarget(c, r, isDir) ==
    IF isDir THEN DeletePath(c, r) ELSE Append(DeletePath(c, r), "json")

\* os.RemoveAll of the target and the return (main.go:166, 169).
DeleteRemove(p) ==
    LET target == DeleteTarget(op[p].c, op[p].r, loc[p].isDir) IN
    /\ pc[p] = "d_remove"
    /\ fs' = RemoveAll(fs, target)
    /\ written' = Restrict(written,
                     {k \in DOMAIN written : Exists(fs', FnlPath(k[1], k[2]))})
    /\ lastHeld' = Restrict(lastHeld,
                     {k \in DOMAIN lastHeld :
                         /\ op[p].c # Empty
                         /\ Exists(fs, FnlPath(k[1], k[2]))
                               => Exists(fs', FnlPath(k[1], k[2]))})
    /\ DeleteReturn(p, "nil", Exists(fs, target))
    /\ UNCHANGED <<mutex, mutexes, op, callers, colls, nops, faults, exp>>
    /\ UNCHANGED visible

(* --------------------------- specification ---------------------------- *)
Next ==
    \E p \in Procs :
        \/ CallWrite(p)
        \/ CallRead(p)
        \/ CallReadAll(p)
        \/ CallDelete(p)
        \/ RegLock(p)
        \/ RegStore(p)
        \/ Lock(p)
        \/ WriteMkdir(p)
        \/ WriteOpen(p)
        \/ WriteData(p)
        \/ WriteRename(p)
        \/ ReadStat(p)
        \/ ReadFile(p)
        \/ ReadAllStat(p)
        \/ ReadAllList(p)
        \/ ReadAllFile(p)
        \/ DeleteStat(p)
        \/ DeleteRemove(p)

Spec == Init /\ [][Next]_vars
SpecSeq == InitSeq /\ [][Next]_vars
SpecColl == InitColl /\ [][Next]_vars
SpecTwo == InitTwo /\ [][Next]_vars

\* The steps of a call that has started, up to its return.
Step(p) ==
    \/ RegLock(p) \/ RegStore(p) \/ Lock(p)
    \/ WriteMkdir(p) \/ WriteOpen(p) \/ WriteData(p) \/ WriteRename(p)
    \/ ReadStat(p) \/ ReadFile(p)
    \/ ReadAllStat(p) \/ ReadAllList(p) \/ ReadAllFile(p)
    \/ DeleteStat(p) \/ DeleteRemove(p)

\* Fair scheduling: a goroutine that can take a step is not left waiting
\* for ever.
SpecFair == InitColl /\ [][Next]_vars /\ \A p \in Procs : WF_vars(Step(p))

(* ------------------------------ typing -------------------------------- *)
TypeOK ==
    /\ \A x \in DOMAIN fs : ParentOk(fs, x)
    /\ mutex \in BOOLEAN
    /\ \A c \in DOMAIN mutexes : mutexes[c] \in DOMAIN locks
    /\ nops \in 0..(MaxOps + MaxConcOps)
    /\ faults \in 0..MaxFaults


(* ------------------------------ claims -------------------------------- *)
Done(p, kind) == pc[p] = "done" /\ op[p].kind = kind
Ok(p) == res[p].err = "nil"
Stored(c, r) == <<c, r>> \in DOMAIN written

\* What a value reads back as: an empty json.Number comes back as "0".
ReadBack(v) == [v EXCEPT !.Age = IF @ = "" THEN "0" ELSE @]

C2_NoTornRead ==
    /\ \A p \in Procs :
          Done(p, "Read") =>
             /\ res[p].err # "EncodingFailure"
             /\ Ok(p) => \E v \in Values :
                            ~MarshalErr(v) /\ res[p].val = ReadBack(v)
    /\ \A c \in Collections \ {Empty}, r \in Resources \ {Empty} :
          Exists(fs, FnlPath(c, r)) =>
             /\ Stored(c, r)
             /\ fs[FnlPath(c, r)] = FileEntry(Encode(written[<<c, r>>]))

\* A Write has its temporary file half done while a Read of the same
\* resource has returned the previous version.
C2_Witness ==
    \E p, q \in Procs :
        /\ op[p].kind = "Write" /\ pc[p] = "w_write"
        /\ Done(q, "Read") /\ Ok(q)
        /\ op[q].c = op[p].c /\ op[q].r = op[p].r
        /\ res[q].val # ReadBack(op[p].v)

\* The callers between taking and releasing the lock of collection c.
InCritical(c) ==
    {p \in Procs : /\ op[p].kind \in {"Write", "Delete"}
                   /\ op[p].c = c
                   /\ pc[p] \in {"w_mkdir", "w_open", "w_write", "w_rename",
                                 "d_stat", "d_remove"}}

\* C3: for every collection at most one Write or Delete call is between
\* taking and releasing the collection's lock.
C3_MutualExclusion ==
    \A c \in Collections : Cardinality(InCritical(c)) <= 1

\* A Delete waits for the lock while a Write of the same collection holds it.
C3_Witness ==
    \E p, q \in Procs :
        /\ p \in InCritical(op[p].c) /\ op[p].kind = "Write"
        /\ op[q].kind = "Delete" /\ op[q].c = op[p].c /\ pc[q] = "lock"

\* C4: once every Write to a resource has returned, and the last of them to
\* hold the lock returned no error, the resource file is exactly the text of
\* that writer's value and no temporary file of the resource is left.
C4_LastWriterWins ==
    \A k \in DOMAIN lastHeld :
        /\ lastHeld[k].st = "ok"
        /\ \A p \in Procs :
              ~(InFlight(p) /\ op[p].kind = "Write" /\ Key(p) = k)
        => /\ Exists(fs, FnlPath(k[1], k[2]))
           /\ fs[FnlPath(k[1], k[2])] = FileEntry(Encode(lastHeld[k].v))
           /\ ~Exists(fs, TmpPath(FnlPath(k[1], k[2])))

\* Two Writes of different values to one resource, the second started while
\* the first was running, have both returned no error.
C4_Witness ==
    \E p, q \in Procs :
        /\ Done(p, "Write") /\ Done(q, "Write") /\ Ok(p) /\ Ok(q)
        /\ Key(p) = Key(q) /\ op[p].v # op[q].v
        /\ Key(p) \in DOMAIN lastHeld
        /\ fs[FnlPath(op[p].c, op[p].r)] = FileEntry(Encode(lastHeld[Key(p)].v))

\* C5: a Write with an empty collection or an empty resource returns an
\* invalid-argument error in the step that starts it, and that step changes
\* neither the filesystem nor the lock registry.
C5_InvalidWrite ==
    [][\A p \in Procs :
          /\ nops' = nops + 1
          /\ ~InFlight(p)
          /\ \A q \in Procs \ {p} : pc'[q] = pc[q] /\ op'[q] = op[q]
          /\ op'[p].kind = "Write"
          /\ (op'[p].c = Empty \/ op'[p].r = Empty)
          => /\ pc'[p] = "done"
             /\ res'[p].err = "InvalidArgument"
             /\ fs' = fs /\ mutexes' = mutexes /\ locks' = locks]_vars

C5_Witness ==
    \E p \in Procs :
        /\ Done(p, "Write") /\ op[p].c # Empty /\ op[p].r = Empty
        /\ res[p].err = "InvalidArgument"
        /\ ~Exists(fs, CollDir(op[p].c))


\* C6: a Read of a resource that is not stored when the Read returns (never
\* written, or deleted and not written again) returns a not-found error.
C6_ReadNotFound ==
    [][\A p \in Procs :
          /\ op[p].kind = "Read" /\ InFlight(p) /\ pc'[p] = "done"
          /\ op[p].c # Empty /\ op[p].r # Empty
          /\ ~Stored(op[p].c, op[p].r)
          => res'[p].err = "NotFound"]_vars

\* A Read that follows a successful Delete of its resource has returned
\* not-found.
C6_Witness ==
    \E p \in Procs :
        /\ Done(p, "Read") /\ exp[p].k = "R"
        /\ res[p].err = "NotFound"

\* C7 as stated: every Delete that returns no error has removed the file or
\* directory it was asked to delete (a Delete of what is not stored is an
\* error, never a silent no-op).
C7_DeleteNeverSilent ==
    \A p \in Procs : Done(p, "Delete") /\ Ok(p) => res[p].removed

\* C8 as stated: after a Delete(c, "") of an existing collection nothing is
\* left at or under the collection's directory, and while no call on c
\* intervenes ReadAll(c) returns not-found and every Read(c, r) fails.
C8_DeleteCollection ==
    /\ \A c \in Collections :
          quiet[c].k = "D" =>
             \A x \in DOMAIN fs : ~Under(CollDir(c), x)
    /\ \A p \in Procs :
          pc[p] = "done" /\ exp[p].k = "D" =>
             /\ op[p].kind = "ReadAll" => res[p].err = "NotFound"
             /\ op[p].kind = "Read" => ~Ok(p)

\* The multiset of the values of a function or sequence.
BagOf(f) ==
    [x \in {f[i] : i \in DOMAIN f} |->
        Cardinality({i \in DOMAIN f : f[i] = x})]

StoredIn(c) == {k \in DOMAIN written : k[1] = c}
TmpEntries(c) ==
    {e \in Entries(fs, CollDir(c)) :
        \E r \in Resources \ {Empty} : e = TmpPath(FnlPath(c, r))}

C10_SerializeFirst ==
    [][\A p \in Procs :
          /\ op[p].kind = "Write" /\ InFlight(p) /\ pc'[p] = "done"
          /\ res'[p].err = "EncodingFailure"
          => fs' = fs]_vars

\* C11 as stated: the root directory exists in every state, whatever calls
\* were made with whatever arguments.
C11_RootKept == IsDir(fs, Root)

\* The callers that have been handed a lock by getOrCreateMutex.
HasLock(p) ==
    pc[p] \in {"lock", "w_mkdir", "w_open", "w_write", "w_rename",
               "d_stat", "d_remove"}

\* C12: in every state at most one lock object has been created for each
\* collection name and every caller handed a lock for a collection holds the
\* one the registry has for it; no step removes or replaces a registry entry
\* or a lock object.
C12_Registry ==
    /\ [](\A c \in Collections :
            /\ Cardinality({l \in DOMAIN locks : l[1] = c}) <= 1
            /\ \A p \in Procs :
                  HasLock(p) /\ op[p].c = c
                     => /\ c \in DOMAIN mutexes
                        /\ loc[p].m = mutexes[c]
                        /\ loc[p].m \in DOMAIN locks)
    /\ [][/\ DOMAIN locks \subseteq DOMAIN locks'
          /\ \A c \in DOMAIN mutexes :
                c \in DOMAIN mutexes' /\ mutexes'[c] = mutexes[c]]_vars

\* Two calls in flight together were handed the same lock for a collection:
\* the first made it, the second found it.
C12_Witness ==
    \E p, q \in Procs :
        /\ p # q /\ pc[p] = "lock" /\ pc[q] = "lock"
        /\ op[p].c = op[q].c
        /\ ~loc[p].found /\ loc[q].found
        /\ loc[p].m = loc[q].m /\ loc[p].m = mutexes[op[p].c]

Blocked(p) ==
    \/ pc[p] = "reg_lock" /\ mutex
    \/ pc[p] = "lock" /\ locks[loc[p].m]

\* Every lock that is held is held by a call that is between taking it and
\* returning.
LocksReleased ==
    /\ mutex <=> \E p \in Procs : pc[p] = "reg_store"
    /\ \A l \in DOMAIN locks :
          locks[l] <=> \E p \in Procs : p \in InCritical(op[p].c) /\ loc[p].m = l

\* Whenever a call has started and not returned, one such call can step.
NoDeadlock ==
    (\E p \in Procs : InFlight(p)) => \E p \in Procs : InFlight(p) /\ ~Blocked(p)

\* A Write of an encodable value that returns with no I/O failure injected
\* returns no error, and its resource file then holds its value.
WriteSucceeds ==
    \A p \in Procs :
        /\ op[p].kind = "Write" /\ InFlight(p) /\ pc'[p] = "done"
        /\ ~MarshalErr(op[p].v)
        /\ faults' = faults
        => /\ res'[p].err = "nil"
           /\ Exists(fs', FnlPath(op[p].c, op[p].r))
           /\ fs'[FnlPath(op[p].c, op[p].r)] = FileEntry(Encode(op[p].v))

\* C14: no lock stays held by a call that has returned, whatever it returned;
\* no state is a deadlock; under fair scheduling every Write and Delete that
\* starts returns; and Writes to resources of one collection, concurrent or
\* not, return no error and leave their value in their resource file.
C14_Progress ==
    /\ []LocksReleased
    /\ []NoDeadlock
    /\ \A p \in Procs : Mutating(p) ~> pc[p] = "done"
    /\ [][WriteSucceeds]_vars

\* Two Writes to different resources of one collection, the second started
\* while the first was running, have both returned no error and both files
\* hold their value.
C14_Witness ==
    /\ nops = 2
    /\ Done(1, "Write") /\ Done(2, "Write") /\ Ok(1) /\ Ok(2)
    /\ op[1].c = op[2].c /\ op[1].r # op[2].r
    /\ \A p \in Procs :
          fs[FnlPath(op[p].c, op[p].r)] = FileEntry(Encode(op[p].v))

\* C15 as stated: a ReadAll(c) that has run with no directory for collection
\* c returned a not-found error, whatever else is under the root; it never
\* returned a successful empty result.
C15_ReadAllNotFound ==
    \A p \in Procs :
        Done(p, "ReadAll") /\ op[p].c # Empty /\ ~IsDir(fs, CollDir(op[p].c))
            => res[p].err = "NotFound"

\* The complete texts a committed version of a resource can have.
Versions == {Encode(v) : v \in {w \in Values : ~MarshalErr(w)}}

\* C16 as stated: with no I/O failure, a ReadAll(c) that returns no error,
\* run by itself or while Writes to c run, returns only complete texts of
\* committed versions, never what an unfinished Write has in its temporary
\* file, and at most one element for each resource.
C16_ReadAllComplete ==
    \A p \in Procs :
        Done(p, "ReadAll") /\ Ok(p) /\ faults = 0
            => /\ \A i \in DOMAIN res[p].recs : res[p].recs[i] \in Versions
               /\ Len(res[p].recs) <= Cardinality(Resources \ {Empty})

\* Path x is the same, in existence and content, in filesystems f and g.
Same(f, g, x) ==
    /\ x \in DOMAIN f <=> x \in DOMAIN g
    /\ x \in DOMAIN f => f[x] = g[x]

\* C17: from the moment a Write holds the lock until it returns an error, no
\* step changes its resource file, and from its temporary-file write on no
\* step changes anything but its temporary file; when the write of the
\* temporary file or the replace step fails the caller gets the error and
\* the resource file is the complete text of the previous version, or is
\* absent when there was none.
C17_FailedWriteKeeps ==
    [][\A p \in Procs :
          LET fnl == FnlPath(op[p].c, op[p].r)
              tmp == TmpPath(fnl)
              fails == pc'[p] = "done" /\ res'[p].err # "nil"
              succeeds == pc'[p] = "done" /\ res'[p].err = "nil"
          IN /\ op[p].kind = "Write" /\ p \in InCritical(op[p].c) /\ ~succeeds
                => Same(fs, fs', fnl)
             /\ op[p].kind = "Write" /\ pc[p] \in {"w_open", "w_write", "w_rename"}
                /\ ~succeeds
                => \A x \in (DOMAIN fs \cup DOMAIN fs') \ {tmp} : Same(fs, fs', x)
             /\ op[p].kind = "Write" /\ pc[p] \in {"w_open", "w_write", "w_rename"}
                /\ fails
                => /\ res'[p].err = "IOFailure"
                   /\ written' = written
                   /\ IF Stored(op[p].c, op[p].r)
                      THEN /\ Exists(fs', fnl)
                           /\ fs'[fnl] = FileEntry(Encode(written[Key(p)]))
                      ELSE ~Exists(fs', fnl)]_vars

\* A Write over a stored resource has failed after its first step: the file
\* still holds the previous version, another value than the one the Write
\* had, and the temporary file is left.
C17_Witness ==
    \E p \in Procs :
        /\ Done(p, "Write") /\ res[p].err = "IOFailure"
        /\ Stored(op[p].c, op[p].r)
        /\ written[Key(p)] # op[p].v
        /\ fs[FnlPath(op[p].c, op[p].r)] = FileEntry(Encode(written[Key(p)]))
        /\ Encode(written[Key(p)]) # Encode(op[p].v)
        /\ Exists(fs, TmpPath(FnlPath(op[p].c, op[p].r)))

\* C18: a caller waiting for the lock of its collection waits only while a
\* call on that same collection is between taking and releasing it; the
\* registry lock is held only by a caller inside getOrCreateMutex, one at a
\* time, and by no caller that is at a filesystem step.
C18_Parallel ==
    /\ \A p \in Procs :
          pc[p] = "lock" /\ InCritical(op[p].c) = {} => ~Blocked(p)
    /\ mutex <=> \E p \in Procs : pc[p] = "reg_store"
    /\ Cardinality({p \in Procs : pc[p] = "reg_store"}) <= 1
    /\ \A p \in Procs : HasLock(p) \/ Reading(p) => pc[p] # "reg_store"

\* Two Writes to different collections both have their temporary file open,
\* each holding the lock of its own collection.
C18_Witness ==
    \E p, q \in Procs :
        /\ op[p].kind = "Write" /\ op[q].kind = "Write"
        /\ op[p].c # op[q].c
        /\ pc[p] = "w_write" /\ pc[q] = "w_write"
        /\ locks[loc[p].m] /\ locks[loc[q].m] /\ loc[p].m # loc[q].m

\* C19: no step of a Delete(c, r) with c and r not empty, whether it ends in
\* an error or not, changes anything but the file <c>/<r>.json: every other
\* file and every directory is there before the step exactly when it is
\* there after it, with the same content.
C19_DeleteFrame ==
    [][\A p \in Procs :
          /\ op[p].kind = "Delete" /\ pc[p] \in {"d_stat", "d_remove"}
          /\ op[p].c # Empty /\ op[p].r # Empty
          => \A x \in (DOMAIN fs \cup DOMAIN fs') \ {FnlPath(op[p].c, op[p].r)} :
                Same(fs, fs', x)]_vars

\* A Delete of resource "a.json" has removed its file next to resource "a",
\* which is still stored.
C19_Witness ==
    \E p \in Procs :
        /\ Done(p, "Delete") /\ Ok(p) /\ res[p].removed
        /\ op[p].c # Empty /\ op[p].r = <<"a", "json">>
        /\ ~Exists(fs, FnlPath(op[p].c, <<"a", "json">>))
        /\ Stored(op[p].c, <<"a">>)
        /\ fs[FnlPath(op[p].c, <<"a">>)]
              = FileEntry(Encode(written[<<op[p].c, <<"a">>>>]))

====
